---- MODULE Spec2Model ----
(***************************************************************************)
(* Model of src/selfapp/my_suumo/suumo_scraping.py: the daily scheduler    *)
(* loop (main), the pipeline run (scrape_and_save), the retrying fetcher   *)
(* (fetch_page), the two extractors (parse_search_results,                 *)
(* parse_property_details) and the spreadsheet sink (save_to_excel).       *)
(*                                                                         *)
(* Text is a sequence of characters.  The characters the code tests for    *)
(* are written as tokens: "moku" "zou" = 木造, "kou" "zou" = 構造,         *)
(* "shiki" "kin" = 敷金, "touten" = 、, "jouhou" "nashi" = 情報なし.       *)
(* Python's None is the empty sequence and a present value x is <<x>>.     *)
(* Dictionary keys: name = 物件名, price = 賃料, madori = 間取り,          *)
(* stations = 最寄駅, URL = URL, structure = 構造, deposit = 敷金/礼金.    *)
(***************************************************************************)
EXTENDS Integers, Sequences, FiniteSets, TLC

(* ------------------------------ bounds --------------------------------- *)
\* longest listing-index document, in listing units
MaxUnits == 2
\* the clock stops at this many poll intervals
MaxTime == 7
\* poll intervals in one calendar day
DayLen == 3
\* longest time one HTTP attempt may block, in poll intervals
MaxElapse == 1

\* longest table.data_table of a listing-detail document, in rows
MaxRows == 3

(* ------------------------- program constants --------------------------- *)
BASE_URL == <<"https://suumo.jp">>
SEARCH_URL == <<"https://suumo.jp", "/jj/chintai/ichiran/FR301FC001/">>
MAX_RETRY == 3
RETRY_INTERVAL == 5
\* the poll interval of main, time.sleep(60), is the unit of the clock
POLL == 1
\* "09:00" on the scale of DayLen poll intervals a day
AT_TIME == 1
SENTINEL == <<"jouhou", "nashi">>
MOKUZOU == <<"moku", "zou">>
KOUZOU == <<"kou", "zou">>
SHIKIKIN == <<"shiki", "kin">>
TOUTEN == "touten"
COMMA_SP == <<",", " ">>

None == <<>>
Some(x) == <<x>>

(* ------------------------------- text ---------------------------------- *)
RECURSIVE LStrip(_)
LStrip(s) == IF s # <<>> /\ Head(s) = " " THEN LStrip(Tail(s)) ELSE s

RECURSIVE RStrip(_)
RStrip(s) ==
    IF s # <<>> /\ s[Len(s)] = " " THEN RStrip(SubSeq(s, 1, Len(s) - 1)) ELSE s

\* str.strip()
Strip(s) == RStrip(LStrip(s))

IsPrefix(p, s) == Len(p) <= Len(s) /\ SubSeq(s, 1, Len(p)) = p

\* the Python test  sub in s
RECURSIVE Contains(_, _)
Contains(sub, s) ==
    IF IsPrefix(sub, s) THEN TRUE
    ELSE IF s = <<>> THEN FALSE
    ELSE Contains(sub, Tail(s))

\* str.split(delim) for a one-character delimiter
RECURSIVE SplitFrom(_, _, _)
SplitFrom(s, delim, cur) ==
    IF s = <<>> THEN <<cur>>
    ELSE IF Head(s) = delim THEN <<cur>> \o SplitFrom(Tail(s), delim, <<>>)
    ELSE SplitFrom(Tail(s), delim, Append(cur, Head(s)))

Split(s, delim) == SplitFrom(s, delim, <<>>)

\* sep.join(parts)
RECURSIVE Join(_, _)
Join(sep, parts) ==
    IF parts = <<>> THEN <<>>
    ELSE IF Len(parts) = 1 THEN parts[1]
    ELSE parts[1] \o sep \o Join(sep, Tail(parts))

(* ----------------------- listing-index documents ----------------------- *)
\* A unit is what the finds of lines 54-63 see in one property_unit-content
\* block: title, price, madori are the text of the element or None; body is
\* None or the texts of the <div>s inside property_unit-body; link is None,
\* or Some(None) for an anchor without href, or Some(Some(href)).
Unit(t, h) ==
    [title  |-> Some(t),
     price  |-> Some(<<"5", "man">>),
     madori |-> Some(<<" ", "1K">>),
     body   |-> Some(<< <<"x">>, <<"S1", "touten", " ", "S2", " ">> >>),
     link   |-> Some(Some(h))]

UnitA == Unit(<<" ", "A">>, <<"/a">>)
UnitB == Unit(<<"B">>, <<"/b">>)
NoTitle  == [UnitA EXCEPT !.title = None]
NoPrice  == [UnitA EXCEPT !.price = None]
NoMadori == [UnitA EXCEPT !.madori = None]
NoBody   == [UnitA EXCEPT !.body = None]
OneDiv   == [UnitA EXCEPT !.body = Some(<< <<"x">> >>)]
NoLink   == [UnitA EXCEPT !.link = None]
NoHref   == [UnitA EXCEPT !.link = Some(None)]

Units == {UnitA, UnitB, NoTitle, NoPrice, NoMadori, NoBody, OneDiv, NoLink, NoHref}

SeqsUpTo(S, n) == UNION {[1..m -> S] : m \in 0..n}

\* every document of at most MaxUnits units
AllIndexDocs == SeqsUpTo(Units, MaxUnits)

\* the documents the index URL serves in Spec: one unit kind for each
\* exception type that line 54-63 can raise, and the two well-formed units
IndexDocs == SeqsUpTo({UnitA, UnitB, NoTitle, OneDiv, NoLink, NoHref}, MaxUnits)

(* ------------------------ parse_search_results ------------------------- *)
Raise(e) == [exc |-> e, rec |-> None]

\* lines 54-71 for a unit in which every find succeeds
Extracted(u) ==
    [name     |-> Strip(u.title[1]),
     price    |-> Strip(u.price[1]),
     madori   |-> Strip(u.madori[1]),
     stations |-> [j \in DOMAIN Split(Strip(u.body[1][2]), TOUTEN)
                     |-> Strip(Split(Strip(u.body[1][2]), TOUTEN)[j])],
     URL      |-> BASE_URL \o u.link[1][1]]

\* ParseUnit with a missing title defaulted to the sentinel, not raised
ParseUnitDefaulting(u) ==
    IF u.price = None \/ u.madori = None \/ u.body = None THEN Raise("AttributeError")
    ELSE IF Len(u.body[1]) < 2 THEN Raise("IndexError")
    ELSE IF u.link = None THEN Raise("TypeError")
    ELSE IF u.link[1] = None THEN Raise("KeyError")
    ELSE [exc |-> "",
          rec |-> Some(Extracted([u EXCEPT !.title =
                         IF u.title = None THEN Some(SENTINEL) ELSE u.title]))]

\* the body of the try block, lines 54-71: the record, or the exception the
\* first failing expression raises
ParseUnit(u) ==
    IF u.title = None THEN Raise("AttributeError")
    ELSE IF u.price = None THEN Raise("AttributeError")
    ELSE IF u.madori = None THEN Raise("AttributeError")
    ELSE IF u.body = None THEN Raise("AttributeError")
    ELSE IF Len(u.body[1]) < 2 THEN Raise("IndexError")
    ELSE IF u.link = None THEN Raise("TypeError")
    ELSE IF u.link[1] = None THEN Raise("KeyError")
    ELSE [exc |-> "", rec |-> Some(Extracted(u))]

\* the except clause of line 72
Caught(exc) == exc = "AttributeError"

\* the loop of lines 52-74 from unit n on; exc # "" when the call raises
RECURSIVE ParseFrom(_, _, _, _)
ParseFrom(html, n, data, warnings) ==
    IF n > Len(html) THEN [data |-> data, warnings |-> warnings, exc |-> ""]
    ELSE LET r == ParseUnit(html[n]) IN
         IF r.exc = "" THEN ParseFrom(html, n + 1, Append(data, r.rec[1]), warnings)
         ELSE IF Caught(r.exc) THEN ParseFrom(html, n + 1, data, warnings + 1)
         ELSE [data |-> data, warnings |-> warnings, exc |-> r.exc]

parse_search_results(html) == ParseFrom(html, 1, <<>>, 0)

(* ------------------------ listing-detail documents --------------------- *)
\* a row of table.data_table: th and td are the cell's text or None;
\* raises is whether lines 85-95 raise an exception on the row
Row(k, v) == [th |-> k, td |-> v, raises |-> FALSE]
RaisingRow == [th |-> None, td |-> None, raises |-> TRUE]

DetailWood == << Row(Some(<<"kou", "zou">>), Some(<<" ", "moku", "zou", "apart">>)),
                 Row(Some(<<"shiki", "kin", "/", "rei">>), Some(<<"1", " ">>)) >>
DetailRC   == << Row(Some(<<"kou", "zou">>), None),
                 Row(Some(<<"tatemono", "kou", "zou">>), Some(<<"R", "C", "zou">>)) >>
DetailBare == << Row(Some(<<"chiku">>), Some(<<"10">>)),
                 Row(None, Some(<<"moku", "zou">>)) >>

\* the kinds of row lines 85-95 tell apart
RowStructure     == Row(Some(<<"kou", "zou">>), Some(<<" ", "R", "C", " ">>))
RowStructure2    == Row(Some(<<" ", "tatemono", "kou", "zou">>), Some(<<"S">>))
RowSentinelValue == Row(Some(<<"kou", "zou">>), Some(<<"jouhou", "nashi", " ">>))
RowDeposit       == Row(Some(<<"shiki", "kin", "/", "rei">>), Some(<<"1", " ">>))
RowBothMarkers   == Row(Some(<<"kou", "zou", "shiki", "kin">>), Some(<<"X">>))
RowOther         == Row(Some(<<"chiku">>), Some(<<"10">>))
RowNoTh          == Row(None, Some(<<"W">>))
RowNoTd          == Row(Some(<<"kou", "zou">>), None)

DetailRows == {RowStructure, RowStructure2, RowSentinelValue, RowDeposit,
               RowBothMarkers, RowOther, RowNoTh, RowNoTd, RaisingRow}

\* every table of at most MaxRows rows
AllDetailDocs == SeqsUpTo(DetailRows, MaxRows)

DetailDocs == {DetailWood, DetailRC, DetailBare}

\* the documents a detail URL serves in Spec
DetailDocsOf(u) ==
    IF u = BASE_URL \o <<"/a">> THEN {DetailWood, DetailRC} ELSE {DetailBare, DetailWood}

(* ----------------------- parse_property_details ------------------------ *)
\* DetailsFrom with the dictionary reset to its defaults by an exception
RECURSIVE DetailsFromResetting(_, _, _)
DetailsFromResetting(rows, n, details) ==
    IF n > Len(rows) THEN details
    ELSE IF rows[n].raises THEN [structure |-> SENTINEL, deposit |-> SENTINEL]
    ELSE LET header == rows[n].th
             value  == rows[n].td
         IN  IF header = None \/ value = None THEN DetailsFromResetting(rows, n + 1, details)
             ELSE IF Contains(KOUZOU, Strip(header[1]))
                  THEN DetailsFromResetting(rows, n + 1, [details EXCEPT !.structure = Strip(value[1])])
             ELSE IF Contains(SHIKIKIN, Strip(header[1]))
                  THEN DetailsFromResetting(rows, n + 1, [details EXCEPT !.deposit = Strip(value[1])])
             ELSE DetailsFromResetting(rows, n + 1, details)

\* DetailsFrom with a value kept once it is set: the first matching row wins
RECURSIVE DetailsFromFirst(_, _, _)
DetailsFromFirst(rows, n, details) ==
    IF n > Len(rows) THEN details
    ELSE IF rows[n].raises THEN details
    ELSE LET header == rows[n].th
             value  == rows[n].td
         IN  IF header = None \/ value = None THEN DetailsFromFirst(rows, n + 1, details)
             ELSE IF Contains(KOUZOU, Strip(header[1]))
                  THEN DetailsFromFirst(rows, n + 1,
                          IF details.structure = SENTINEL
                          THEN [details EXCEPT !.structure = Strip(value[1])] ELSE details)
             ELSE IF Contains(SHIKIKIN, Strip(header[1]))
                  THEN DetailsFromFirst(rows, n + 1,
                          IF details.deposit = SENTINEL
                          THEN [details EXCEPT !.deposit = Strip(value[1])] ELSE details)
             ELSE DetailsFromFirst(rows, n + 1, details)

\* the loop of lines 84-95 from row n on; an exception ends the loop at
\* lines 96-97 and line 98 returns the dictionary as it then is
RECURSIVE DetailsFrom(_, _, _)
DetailsFrom(rows, n, details) ==
    IF n > Len(rows) THEN details
    ELSE IF rows[n].raises THEN details
    ELSE LET header == rows[n].th
             value  == rows[n].td
         IN  IF header = None \/ value = None THEN DetailsFrom(rows, n + 1, details)
             ELSE IF Contains(KOUZOU, Strip(header[1]))
                  THEN DetailsFrom(rows, n + 1, [details EXCEPT !.structure = Strip(value[1])])
             ELSE IF Contains(SHIKIKIN, Strip(header[1]))
                  THEN DetailsFrom(rows, n + 1, [details EXCEPT !.deposit = Strip(value[1])])
             ELSE DetailsFrom(rows, n + 1, details)

parse_property_details(html) ==
    DetailsFrom(html, 1, [structure |-> SENTINEL, deposit |-> SENTINEL])

\* Update that also takes the price from the detail document
UpdateOverwritesPrice(property_info, details) ==
    [key \in DOMAIN property_info \cup DOMAIN details |->
        IF key \in DOMAIN details THEN details[key]
        ELSE IF key = "price" THEN details.deposit
        ELSE property_info[key]]

\* dict.update of line 161: the keys of details overwrite or extend the record
Update(property_info, details) ==
    [key \in DOMAIN property_info \cup DOMAIN details |->
        IF key \in DOMAIN details THEN details[key] ELSE property_info[key]]

(* ---------------------------- save_to_excel ---------------------------- *)
HEADER == << <<"name">>, <<"price">>, <<"deposit">>, <<"structure">>,
             <<"madori">>, <<"stations">>, <<"URL">> >>

\* lines 117-128: one row per item
ExcelRow(item) ==
    << item.name, item.price, item.deposit, item.structure, item.madori,
       Join(COMMA_SP, item.stations), item.URL >>

\* save_to_excel without the test of line 102
save_to_excel_unguarded(data, oldfile, ok) ==
    [file  |-> IF ok THEN Some(<<HEADER>> \o [j \in DOMAIN data |-> ExcelRow(data[j])])
               ELSE oldfile,
     saved |-> TRUE]

\* lines 101-134: the file after the call, and whether workbook.save was
\* called; ok is whether workbook.save succeeds (its exception is caught)
save_to_excel(data, oldfile, ok) ==
    IF data = <<>> THEN [file |-> oldfile, saved |-> FALSE]
    ELSE [file  |-> IF ok THEN Some(<<HEADER>> \o [j \in DOMAIN data |-> ExcelRow(data[j])])
                    ELSE oldfile,
          saved |-> TRUE]

(* ------------------------------ the filter ----------------------------- *)
\* Keep with the marker compared for equality, not searched for
KeepExact(p) == p.structure # MOKUZOU

\* line 165: the condition of the list comprehension
Keep(p) == ~Contains(MOKUZOU, p.structure)

\* line 165: the list comprehension, in list order
RECURSIVE FilterFrom(_, _)
FilterFrom(all, n) ==
    IF n > Len(all) THEN <<>>
    ELSE IF Keep(all[n]) THEN <<all[n]>> \o FilterFrom(all, n + 1)
    ELSE FilterFrom(all, n + 1)

(* ------------------------------ scheduler ------------------------------ *)
\* schedule.every().day.at("09:00"): the first 09:00 strictly after time t
NextAt(t) ==
    LET today == (t \div DayLen) * DayLen + AT_TIME
    IN  IF today > t THEN today ELSE today + DayLen

(* ------------------------------- state --------------------------------- *)
VARIABLES
    mainpc,         \* main: "run_pending", "in_job", "sleep", "crashed"
    runpc,          \* scrape_and_save: "idle", "fetch_index", "index_returned",
                    \* "fetch_detail", "detail_returned", "raised"
    now,            \* wall clock, in poll intervals
    next_run,       \* the job's next_run
    url, i, ret,    \* fetch_page: argument, loop variable, returned value
    outcomes,       \* fetch_page: the outcome of each attempt of this call
    waits,          \* fetch_page: the time.sleep calls of this call
    html, property_list, k, all_data, filtered_data,   \* scrape_and_save
    file,           \* contents of OUTPUT_EXCEL_FILE, None while it does not exist
    parsed,         \* this run: None, or Some(result of parse_search_results)
    indexCalls,     \* this run: calls of fetch_page(SEARCH_URL)
    detailRets,     \* this run: what each call of fetch_page(detail URL) returned
    handed,         \* this run: None, or Some(argument of save_to_excel)
    saved,          \* this run: workbook.save was called
    file0,          \* the file when this run started
    active,         \* runs of scrape_and_save in progress
    details,        \* scrape_and_save: None, or Some(details) of line 160
    attempts,       \* this run: calls of requests.get
    starts          \* the times at which scrape_and_save was called

fetchVars == <<url, i, ret, outcomes, waits>>
runVars   == <<html, property_list, k, all_data, filtered_data>>
obsVars   == <<parsed, indexCalls, detailRets, handed, saved, file0>>
vars == <<mainpc, runpc, now, next_run, fetchVars, runVars, file, obsVars, active,
          details, attempts, starts>>

\* a document with no listing unit and no table row, sent with an error status
ErrorPage == <<>>

Init ==
    /\ mainpc = "run_pending"
    /\ runpc = "idle"
    /\ now \in 0..(DayLen - 1)
    /\ next_run = NextAt(now)
    /\ url = <<>> /\ i = 0 /\ ret = None /\ outcomes = <<>> /\ waits = <<>>
    /\ html = None /\ property_list = <<>> /\ k = 0
    /\ all_data = <<>> /\ filtered_data = <<>>
    /\ file = None
    /\ parsed = None /\ indexCalls = 0 /\ detailRets = <<>>
    /\ handed = None /\ saved = FALSE /\ file0 = None
    /\ active = 0
    /\ details = None /\ attempts = 0
    /\ starts = <<>>

(* -------------------------------- main --------------------------------- *)
\* line 177: the job is due
JobDue == now >= next_run

\* run_pending calls scrape_and_save, which logs and calls
\* fetch_page(SEARCH_URL) (lines 138-140)
StartRun ==
    /\ runpc' = "fetch_index"
    /\ active' = active + 1
    /\ url' = SEARCH_URL /\ i' = 0 /\ ret' = None /\ outcomes' = <<>> /\ waits' = <<>>
    /\ html' = None /\ property_list' = <<>> /\ k' = 0
    /\ all_data' = <<>> /\ filtered_data' = <<>>
    /\ parsed' = None /\ indexCalls' = 1 /\ detailRets' = <<>>
    /\ handed' = None /\ saved' = FALSE /\ file0' = file
    /\ details' = None /\ attempts' = 0
    /\ starts' = Append(starts, now)
    /\ UNCHANGED <<now, next_run, file>>

\* RunPendingStart with the job started in the background
RunPendingStartDetached ==
    /\ mainpc = "run_pending"
    /\ JobDue
    /\ mainpc' = "sleep"
    /\ StartRun

RunPendingStart ==
    /\ mainpc = "run_pending"
    /\ JobDue
    /\ mainpc' = "in_job"
    /\ StartRun

\* line 177, nothing due
RunPendingIdle ==
    /\ mainpc = "run_pending"
    /\ ~JobDue
    /\ mainpc' = "sleep"
    /\ UNCHANGED <<runpc, now, next_run, fetchVars, runVars, file, obsVars, active>>
    /\ UNCHANGED <<starts, attempts, details>>

\* line 178
Sleep ==
    /\ mainpc = "sleep"
    /\ now + POLL <= MaxTime
    /\ now' = now + POLL
    /\ mainpc' = "run_pending"
    /\ UNCHANGED <<runpc, next_run, fetchVars, runVars, file, obsVars, active>>
    /\ UNCHANGED <<starts, attempts, details>>

\* Return with the job rescheduled one day after the time it was due
ReturnCatchUp ==
    /\ runpc' = "idle"
    /\ mainpc' = "sleep"
    /\ next_run' = next_run + DayLen
    /\ active' = active - 1
    /\ UNCHANGED starts

\* scrape_and_save returns: the job is rescheduled and run_pending returns
Return ==
    /\ runpc' = "idle"
    /\ mainpc' = "sleep"
    /\ next_run' = NextAt(now)
    /\ active' = active - 1
    /\ UNCHANGED starts

\* an exception leaves scrape_and_save; run_pending and main do not catch it
Propagate ==
    /\ runpc' = "raised"
    /\ mainpc' = "crashed"
    /\ active' = active - 1
    /\ UNCHANGED <<next_run, starts>>

(* ------------------------------ fetch_page ----------------------------- *)
Fetching == runpc \in {"fetch_index", "fetch_detail"}
Returned == IF runpc = "fetch_index" THEN "index_returned" ELSE "detail_returned"
Bodies   == IF runpc = "fetch_index" THEN IndexDocs ELSE DetailDocsOf(url)

\* InRange with one iteration too many
InRangeOffByOne(j) == j <= MAX_RETRY

\* range(MAX_RETRY), line 34
InRange(j) == j < MAX_RETRY
\* SleepBeforeRetry without the condition of line 41
SleepAlways(j) == j < MAX_RETRY

\* line 41
SleepBeforeRetry(j) == j < MAX_RETRY - 1

\* ReturnAfterLoop returning what the final attempt received
ReturnLastBody(last) == last.body

\* line 44: what the call returns when the loop ends, last being the
\* outcome of the final attempt
ReturnAfterLoop(last) == None

\* Call with the attempt count of the call before kept
CallKeepsCount(u) ==
    /\ url' = u /\ i' = i /\ ret' = None /\ outcomes' = <<>> /\ waits' = <<>>

\* the call of line 140 or 154
Call(u) ==
    /\ url' = u /\ i' = 0 /\ ret' = None /\ outcomes' = <<>> /\ waits' = <<>>

\* lines 36-38: the request succeeds with a 2xx status after d poll intervals
AttemptSucceeds ==
    /\ Fetching
    /\ \E body \in Bodies, d \in 0..MaxElapse :
          /\ now + d <= MaxTime
          /\ now' = now + d
          /\ outcomes' = Append(outcomes, [kind |-> "ok", body |-> Some(body)])
          /\ ret' = Some(body)
    /\ runpc' = Returned
    /\ attempts' = attempts + 1
    /\ UNCHANGED <<mainpc, next_run, url, i, waits, runVars, file, obsVars, active>>
    /\ UNCHANGED <<starts, details>>

\* a failed attempt: requests.get raises (transport) or raise_for_status
\* raises (http); lines 39-43, then the next iteration or line 44
Failure(kind) ==
    [kind |-> kind, body |-> IF kind = "http" THEN Some(ErrorPage) ELSE None]

\* AttemptFails without raise_for_status: the body of a response with a
\* status that is not 2xx is returned
AttemptFailsNoStatusCheck ==
    /\ Fetching
    /\ \E kind \in {"transport", "http"}, d \in 0..MaxElapse :
          /\ now + d <= MaxTime
          /\ now' = now + d
          /\ outcomes' = Append(outcomes, Failure(kind))
          /\ IF kind = "http"
             THEN /\ ret' = Failure(kind).body /\ runpc' = Returned
                  /\ UNCHANGED <<i, waits>>
             ELSE /\ waits' = IF SleepBeforeRetry(i) THEN Append(waits, RETRY_INTERVAL) ELSE waits
                  /\ IF InRange(i + 1)
                     THEN i' = i + 1 /\ UNCHANGED <<runpc, ret>>
                     ELSE ret' = ReturnAfterLoop(outcomes'[Len(outcomes')])
                          /\ runpc' = Returned /\ UNCHANGED i
    /\ attempts' = attempts + 1
    /\ UNCHANGED <<mainpc, next_run, url, runVars, file, obsVars, active>>
    /\ UNCHANGED <<starts, details>>

AttemptFails ==
    /\ Fetching
    /\ \E kind \in {"transport", "http"}, d \in 0..MaxElapse :
          /\ now + d <= MaxTime
          /\ now' = now + d
          /\ outcomes' = Append(outcomes, Failure(kind))
    /\ waits' = IF SleepBeforeRetry(i) THEN Append(waits, RETRY_INTERVAL) ELSE waits
    /\ IF InRange(i + 1)
       THEN i' = i + 1 /\ UNCHANGED <<runpc, ret>>
       ELSE ret' = ReturnAfterLoop(outcomes'[Len(outcomes')])
            /\ runpc' = Returned /\ UNCHANGED i
    /\ attempts' = attempts + 1
    /\ UNCHANGED <<mainpc, next_run, url, runVars, file, obsVars, active>>
    /\ UNCHANGED <<starts, details>>

(* ---------------------------- scrape_and_save -------------------------- *)
\* line 141
FetchFailed(h) == h = None
\* line 147
NoProperties(pl) == pl = <<>>

\* IndexAbort without the return of line 143, the sink reached
IndexAbortSaves ==
    /\ runpc = "index_returned"
    /\ FetchFailed(ret)
    /\ html' = ret
    /\ handed' = Some(<<>>)
    /\ Return
    /\ UNCHANGED <<now, fetchVars, property_list, k, all_data, filtered_data,
                   file, parsed, indexCalls, detailRets, saved, file0>>
    /\ UNCHANGED <<attempts, details>>

\* lines 141-143
IndexAbort ==
    /\ runpc = "index_returned"
    /\ FetchFailed(ret)
    /\ html' = ret
    /\ Return
    /\ UNCHANGED <<now, fetchVars, property_list, k, all_data, filtered_data,
                   file, obsVars>>
    /\ UNCHANGED <<attempts, details>>

\* line 146 raises
ParseRaises ==
    /\ runpc = "index_returned"
    /\ ~FetchFailed(ret)
    /\ parse_search_results(ret[1]).exc # ""
    /\ html' = ret
    /\ parsed' = Some(parse_search_results(ret[1]))
    /\ Propagate
    /\ UNCHANGED <<now, fetchVars, property_list, k, all_data, filtered_data,
                   file, indexCalls, detailRets, handed, saved, file0>>
    /\ UNCHANGED <<attempts, details>>

\* NoPropertiesFound without the return of line 149, the sink reached
NoPropertiesFoundSaves ==
    /\ runpc = "index_returned"
    /\ ~FetchFailed(ret)
    /\ parse_search_results(ret[1]).exc = ""
    /\ NoProperties(parse_search_results(ret[1]).data)
    /\ html' = ret
    /\ parsed' = Some(parse_search_results(ret[1]))
    /\ property_list' = parse_search_results(ret[1]).data
    /\ handed' = Some(<<>>)
    /\ Return
    /\ UNCHANGED <<now, fetchVars, k, all_data, filtered_data,
                   file, indexCalls, detailRets, saved, file0>>
    /\ UNCHANGED <<attempts, details>>

\* lines 146-149
NoPropertiesFound ==
    /\ runpc = "index_returned"
    /\ ~FetchFailed(ret)
    /\ parse_search_results(ret[1]).exc = ""
    /\ NoProperties(parse_search_results(ret[1]).data)
    /\ html' = ret
    /\ parsed' = Some(parse_search_results(ret[1]))
    /\ property_list' = parse_search_results(ret[1]).data
    /\ Return
    /\ UNCHANGED <<now, fetchVars, k, all_data, filtered_data,
                   file, indexCalls, detailRets, handed, saved, file0>>
    /\ UNCHANGED <<attempts, details>>

\* lines 146-154: the first detail fetch is called
StartDetails ==
    /\ runpc = "index_returned"
    /\ ~FetchFailed(ret)
    /\ parse_search_results(ret[1]).exc = ""
    /\ ~NoProperties(parse_search_results(ret[1]).data)
    /\ html' = ret
    /\ parsed' = Some(parse_search_results(ret[1]))
    /\ property_list' = parse_search_results(ret[1]).data
    /\ all_data' = <<>>
    /\ k' = 1
    /\ Call(parse_search_results(ret[1]).data[1].URL)
    /\ runpc' = "fetch_detail"
    /\ UNCHANGED <<mainpc, now, next_run, filtered_data, file, indexCalls,
                   detailRets, handed, saved, file0, active>>
    /\ UNCHANGED <<starts, attempts, details>>

\* NextRecord with the records of the file of the run before left out
NextRecordDedup(pl, all, ok) ==
    LET IsNew(p) == file = None \/ \A j \in 1..Len(file[1]) : file[1][j] # ExcelRow(p)
        fresh == SelectSeq(FilterFrom(all, 1), IsNew)
    IN  IF k < Len(pl)
        THEN /\ k' = k + 1
             /\ Call(pl[k + 1].URL)
             /\ runpc' = "fetch_detail"
             /\ UNCHANGED <<mainpc, next_run, filtered_data, file, handed, saved, active>>
             /\ UNCHANGED starts
        ELSE /\ filtered_data' = fresh
             /\ handed' = Some(fresh)
             /\ file' = save_to_excel(fresh, file, ok).file
             /\ saved' = save_to_excel(fresh, file, ok).saved
             /\ Return
             /\ UNCHANGED <<k, fetchVars>>

\* after the body of the loop of line 153 for record k: the next record's
\* fetch (line 154), or lines 165-169 when the list is exhausted
NextRecord(pl, all, ok) ==
    IF k < Len(pl)
    THEN /\ k' = k + 1
         /\ Call(pl[k + 1].URL)
         /\ runpc' = "fetch_detail"
         /\ UNCHANGED <<mainpc, next_run, filtered_data, file, handed, saved, active>>
         /\ UNCHANGED starts
    ELSE /\ filtered_data' = FilterFrom(all, 1)
         /\ handed' = Some(FilterFrom(all, 1))
         /\ file' = save_to_excel(FilterFrom(all, 1), file, ok).file
         /\ saved' = save_to_excel(FilterFrom(all, 1), file, ok).saved
         /\ Return
         /\ UNCHANGED <<k, fetchVars>>

\* DetailSkip keeping the record with the default details
DetailSkipDefaults ==
    /\ runpc = "detail_returned"
    /\ FetchFailed(ret)
    /\ detailRets' = Append(detailRets, ret)
    /\ LET merged == Update(property_list[k],
                            [structure |-> SENTINEL, deposit |-> SENTINEL])
       IN  /\ property_list' = [property_list EXCEPT ![k] = merged]
           /\ all_data' = Append(all_data, merged)
           /\ \E ok \in BOOLEAN : NextRecord(property_list', all_data', ok)
    /\ UNCHANGED <<now, html, parsed, indexCalls, file0, attempts, details>>

\* lines 155-157
DetailSkip ==
    /\ runpc = "detail_returned"
    /\ FetchFailed(ret)
    /\ detailRets' = Append(detailRets, ret)
    /\ \E ok \in BOOLEAN : NextRecord(property_list, all_data, ok)
    /\ UNCHANGED <<now, html, property_list, all_data, parsed, indexCalls, file0>>
    /\ UNCHANGED <<attempts, details>>

\* lines 160-162
DetailMerge ==
    /\ runpc = "detail_returned"
    /\ ~FetchFailed(ret)
    /\ detailRets' = Append(detailRets, ret)
    /\ details' = Some(parse_property_details(ret[1]))
    /\ LET merged == Update(property_list[k], details'[1])
       IN  /\ property_list' = [property_list EXCEPT ![k] = merged]
           /\ all_data' = Append(all_data, merged)
           /\ \E ok \in BOOLEAN : NextRecord(property_list', all_data', ok)
    /\ UNCHANGED <<now, html, parsed, indexCalls, file0, attempts>>

Next ==
    \/ RunPendingStart
    \/ RunPendingIdle
    \/ Sleep
    \/ AttemptSucceeds
    \/ AttemptFails
    \/ IndexAbort
    \/ ParseRaises
    \/ NoPropertiesFound
    \/ StartDetails
    \/ DetailSkip
    \/ DetailMerge

Spec == Init /\ [][Next]_vars

TypeOK ==
    /\ mainpc \in {"run_pending", "in_job", "sleep", "crashed"}
    /\ runpc \in {"idle", "fetch_index", "index_returned", "fetch_detail",
                  "detail_returned", "raised"}
    /\ now \in 0..MaxTime
    /\ i \in 0..MAX_RETRY
    /\ k \in 0..MaxUnits
    /\ active \in 0..2

(* --------------- parse_search_results on every document ---------------- *)
\* scrape_and_save at line 146, fetch_page(SEARCH_URL) having returned any
\* document of AllIndexDocs at its first attempt
InitParse ==
    /\ mainpc = "in_job"
    /\ runpc = "index_returned"
    /\ now = AT_TIME
    /\ next_run = AT_TIME
    /\ url = SEARCH_URL /\ i = 0 /\ waits = <<>>
    /\ ret \in {Some(doc) : doc \in AllIndexDocs}
    /\ outcomes = <<[kind |-> "ok", body |-> ret]>>
    /\ html = None /\ property_list = <<>> /\ k = 0
    /\ all_data = <<>> /\ filtered_data = <<>>
    /\ file = None
    /\ parsed = None /\ indexCalls = 1 /\ detailRets = <<>>
    /\ handed = None /\ saved = FALSE /\ file0 = None
    /\ active = 1
    /\ details = None /\ attempts = 1
    /\ starts = <<AT_TIME>>

NextParse == ParseRaises \/ NoPropertiesFound \/ StartDetails

ParseSpec == InitParse /\ [][NextParse]_vars

(* --------------- parse_property_details on every document -------------- *)
\* scrape_and_save at line 155 for the only record of the index document,
\* fetch_page having returned any document of AllDetailDocs at its first
\* attempt
InitDetail ==
    /\ mainpc = "in_job"
    /\ runpc = "detail_returned"
    /\ now = AT_TIME
    /\ next_run = AT_TIME
    /\ url = BASE_URL \o <<"/a">> /\ i = 0 /\ waits = <<>>
    /\ ret \in {Some(doc) : doc \in AllDetailDocs}
    /\ outcomes = <<[kind |-> "ok", body |-> ret]>>
    /\ html = Some(<<UnitA>>)
    /\ property_list = parse_search_results(<<UnitA>>).data /\ k = 1
    /\ all_data = <<>> /\ filtered_data = <<>>
    /\ file = None
    /\ parsed = Some(parse_search_results(<<UnitA>>)) /\ indexCalls = 1
    /\ detailRets = <<>>
    /\ handed = None /\ saved = FALSE /\ file0 = None
    /\ active = 1
    /\ details = None /\ attempts = 2
    /\ starts = <<AT_TIME>>

NextDetail == DetailMerge

DetailSpec == InitDetail /\ [][NextDetail]_vars

(* ------------------------------- claims -------------------------------- *)
\* the run whose observations the state holds has returned
RunOver == runpc = "idle" /\ indexCalls = 1

\* the structure text contains 木 immediately followed by 造
HasWood(s) == \E j \in 1..(Len(s) - 1) : s[j] = "moku" /\ s[j + 1] = "zou"

\* C1: one call of fetch_page makes at most MAX_RETRY attempts; an attempt
\* that succeeds is the last attempt of the call, the call has then returned
\* and what it returned is the body of that attempt.
C1_FetchBounded ==
    /\ Len(outcomes) <= MAX_RETRY
    /\ \A j \in 1..Len(outcomes) :
          outcomes[j].kind = "ok" =>
             /\ j = Len(outcomes)
             /\ ~Fetching
             /\ ret = outcomes[j].body

\* a call that failed twice and succeeded at its last permitted attempt
C1_Witness ==
    /\ runpc = "detail_returned"
    /\ Len(outcomes) = MAX_RETRY
    /\ outcomes[1].kind = "http" /\ outcomes[2].kind = "transport"
    /\ outcomes[MAX_RETRY].kind = "ok"
    /\ ret # None

\* C2: no error raised inside a pipeline run terminates the process: main
\* is always in its loop, waiting or inside the job.
C2_NeverTerminates == mainpc # "crashed"

\* a unit with every element the extraction of lines 54-63 reads
WellFormed(u) ==
    /\ u.title # None /\ u.price # None /\ u.madori # None
    /\ u.body # None /\ Len(u.body[1]) >= 2
    /\ u.link # None /\ u.link[1] # None

RECURSIVE RecordsOfWellFormed(_)
RecordsOfWellFormed(doc) ==
    IF doc = <<>> THEN <<>>
    ELSE (IF WellFormed(Head(doc)) THEN <<ParseUnit(Head(doc)).rec[1]>> ELSE <<>>)
         \o RecordsOfWellFormed(Tail(doc))

\* C3: parse_search_results never throws, returns exactly the records of
\* the well-formed units and logs one warning for each malformed unit.
C3_SkipsMalformed ==
    parsed # None =>
        /\ parsed[1].exc = ""
        /\ parsed[1].data = RecordsOfWellFormed(html[1])
        /\ parsed[1].warnings = Cardinality({n \in 1..Len(html[1]) : ~WellFormed(html[1][n])})

\* C4: when the index fetch failed on all MAX_RETRY attempts the run is
\* over with no extraction, no detail fetch, no call of save_to_excel and
\* the file as it was.
C4_IndexFailureAborts ==
    (html = None /\ indexCalls = 1 /\ runpc \notin {"fetch_index", "index_returned"}) =>
        /\ runpc = "idle"
        /\ Len(outcomes) = MAX_RETRY
        /\ url = SEARCH_URL
        /\ parsed = None
        /\ detailRets = <<>>
        /\ handed = None
        /\ ~saved
        /\ file = file0

\* a run that aborted on the index fetch, a file of an earlier run existing
C4_Witness ==
    /\ RunOver /\ html = None
    /\ \A j \in 1..MAX_RETRY : outcomes[j].kind # "ok"
    /\ file # None

\* what the sink is to receive: record j merged with the details of its own
\* detail document, when that was fetched and its structure is not wood
RECURSIVE ExpectedPayload(_, _, _)
ExpectedPayload(summaries, rets, j) ==
    IF j > Len(summaries) THEN <<>>
    ELSE LET merged == Update(summaries[j], parse_property_details(rets[j][1]))
         IN  (IF rets[j] # None /\ ~HasWood(merged.structure) THEN <<merged>> ELSE <<>>)
             \o ExpectedPayload(summaries, rets, j + 1)

\* C5: whether and how a record reaches the sink depends on its own detail
\* fetch only: a record whose detail fetch failed is dropped, every other
\* record is merged with its own details and kept or filtered.
C5_FailureIsolation ==
    handed # None =>
        /\ Len(detailRets) = Len(parsed[1].data)
        /\ handed[1] = ExpectedPayload(parsed[1].data, detailRets, 1)

\* of two records the first one's detail fetch failed and the second one
\* reached the sink
C5_Witness ==
    /\ handed # None
    /\ Len(detailRets) = 2
    /\ detailRets[1] = None /\ detailRets[2] # None
    /\ Len(handed[1]) = 1
    /\ handed[1][1].name = <<"B">>

\* p is q with some elements deleted, order kept
IsSubsequence(p, q) ==
    \E f \in [1..Len(p) -> 1..Len(q)] :
        /\ \A a, b \in 1..Len(p) : a < b => f[a] < f[b]
        /\ \A a \in 1..Len(p) : p[a] = q[f[a]]

\* C6: the sequence handed to the sink is the subsequence of the merged
\* records, in order, of exactly those whose structure has no wood marker.
C6_FilterExact ==
    handed # None =>
        /\ \A j \in 1..Len(handed[1]) : ~HasWood(handed[1][j].structure)
        /\ IsSubsequence(handed[1], all_data)
        /\ Len(handed[1]) =
              Cardinality({j \in 1..Len(all_data) : ~HasWood(all_data[j].structure)})

\* a wooden record removed and the record after it kept
C6_Witness ==
    /\ handed # None
    /\ Len(all_data) = 2
    /\ HasWood(all_data[1].structure)
    /\ handed[1] = <<all_data[2]>>

\* C7: when extraction returned no record the run is over: one index
\* fetch, no detail fetch, no call of save_to_excel.
C7_EmptyIsTerminal ==
    (parsed # None /\ parsed[1].exc = "" /\ parsed[1].data = <<>>) =>
        /\ runpc = "idle"
        /\ indexCalls = 1
        /\ url = SEARCH_URL
        /\ detailRets = <<>>
        /\ handed = None
        /\ ~saved
        /\ file = file0

\* a fetched index document whose only unit is malformed and skipped
C7_Witness ==
    /\ parsed # None /\ parsed[1].exc = "" /\ parsed[1].data = <<>>
    /\ html = Some(<<NoTitle>>)
    /\ parsed[1].warnings = 1

\* C8: when the filtered record set is empty workbook.save is not called,
\* the file is as it was before the run and the run has returned to main.
C8_EmptyNoWrite ==
    handed = Some(<<>>) =>
        /\ ~saved
        /\ file = file0
        /\ runpc = "idle"
        /\ mainpc # "crashed"

\* a run that lost one record to a failed fetch and one to the filter,
\* after a run that had written the file
C8_Witness ==
    /\ handed = Some(<<>>)
    /\ Len(detailRets) = 2
    /\ detailRets[1] = None /\ detailRets[2] # None
    /\ file # None

\* text t is the stripped value cell of a row of a fetched detail document
ExtractedDetail(t) ==
    \E m \in 1..Len(detailRets) :
        /\ detailRets[m] # None
        /\ \E n \in 1..Len(detailRets[m][1]) :
              /\ detailRets[m][1][n].td # None
              /\ t = Strip(detailRets[m][1][n].td[1])

\* C9: every record handed to the sink has the name, price, layout and URL
\* of a listing unit of the index document that has all of them, and a
\* structure and deposit that are an extracted value or the sentinel.
C9_RequiredFieldsExtracted ==
    handed # None =>
        \A j \in 1..Len(handed[1]) :
            LET r == handed[1][j] IN
            /\ \E n \in 1..Len(html[1]) :
                  LET u == html[1][n] IN
                  /\ u.title # None /\ u.price # None /\ u.madori # None
                  /\ u.link # None /\ u.link[1] # None
                  /\ r.name = Strip(u.title[1])
                  /\ r.price = Strip(u.price[1])
                  /\ r.madori = Strip(u.madori[1])
                  /\ r.URL = BASE_URL \o u.link[1][1]
            /\ r.structure = SENTINEL \/ ExtractedDetail(r.structure)
            /\ r.deposit = SENTINEL \/ ExtractedDetail(r.deposit)

\* two records handed over, the first with an extracted structure, the
\* second with the sentinel
C9_Witness ==
    /\ handed # None
    /\ Len(handed[1]) = 2
    /\ handed[1][1].structure = <<"R", "C", "zou">>
    /\ handed[1][2].structure = SENTINEL
    /\ handed[1][2].deposit = SENTINEL

\* C10: at most one run is in progress, and while main checks the schedule
\* or sleeps no run is in progress.
C10_NoOverlap ==
    /\ active <= 1
    /\ mainpc \in {"run_pending", "sleep"} => (active = 0 /\ runpc = "idle")

\* a run still in progress a whole day after the time it was due
C10_Witness ==
    /\ active = 1
    /\ mainpc = "in_job"
    /\ now >= next_run + DayLen

(* ------------------------------ scheduler ------------------------------ *)
\* t is 09:00 of some day
TriggerInstant(t) == t % DayLen = AT_TIME
Day(t) == t \div DayLen
\* the first 09:00 after time t
FirstTriggerAfter(t) == CHOOSE u \in (t + 1)..(t + DayLen) : TriggerInstant(u)

\* the process is never terminated: after a run main is back in its loop
C11_BackToWaiting == mainpc # "crashed"

\* a poll that main slept into and that falls on 09:00 finds the job due,
\* and a poll that finds the job due starts the run
C11_StartsWhenDue ==
    [][/\ (mainpc = "sleep" /\ mainpc' = "run_pending" /\ TriggerInstant(now'))
             => now' >= next_run'
       /\ (mainpc = "run_pending" /\ now >= next_run /\ mainpc' # mainpc)
             => starts' = Append(starts, now)]_vars

\* every run started at 09:00, no two on the same day
C11_OncePerDay ==
    /\ \A a \in 1..Len(starts) : TriggerInstant(starts[a])
    /\ \A a, b \in 1..Len(starts) : a < b => Day(starts[a]) < Day(starts[b])

\* C11: every day on which main is waiting at 09:00 a run starts at that
\* poll, at most one run starts per calendar day, and after the run main is
\* waiting again, indefinitely.
C11_DailyRun == C11_StartsWhenDue /\ []C11_OncePerDay /\ []C11_BackToWaiting

\* C12: when a run returns, the job's next time is the first 09:00 after
\* the return, so that every 09:00 the run overran is skipped and none is
\* queued; a run starts only at a poll at the job's time, no run being in
\* progress.
C12_OverrunSkipsDay ==
    [][/\ (active = 1 /\ active' = 0 /\ mainpc' = "sleep")
             => (next_run' = FirstTriggerAfter(now) /\ starts' = starts)
       /\ starts' # starts
             => (active = 0 /\ now = next_run /\ starts' = Append(starts, now))]_vars

\* a run due on the first day overran 09:00 of the second day, no run was
\* started on the second day and one was started at 09:00 of the third
C12_Witness ==
    /\ starts = <<AT_TIME, AT_TIME + 2 * DayLen>>
    /\ active = 1

\* what fetch_page returns for the outcomes of its attempts
RECURSIVE ResultOf(_)
ResultOf(outs) ==
    IF outs = <<>> THEN None
    ELSE IF Head(outs).kind = "ok" THEN Head(outs).body
    ELSE ResultOf(Tail(outs))

\* C13: what a run hands to the sink is a function of the documents this
\* run fetched, and what a call of fetch_page returns is a function of the
\* outcomes of this call's attempts, whatever runs came before: two runs
\* given the same documents and outcomes hand over the same records.
C13_Idempotent ==
    /\ (~Fetching /\ outcomes # <<>>) =>
          /\ ret = ResultOf(outcomes)
          /\ ret = None => Len(outcomes) = MAX_RETRY
    /\ handed # None =>
          handed[1] = ExpectedPayload(parse_search_results(html[1]).data, detailRets, 1)

\* a second run that wrote the same file as the run before it
C13_Witness ==
    /\ Len(starts) = 2
    /\ RunOver
    /\ saved
    /\ file0 # None
    /\ handed # None /\ Len(handed[1]) = 2
    /\ file = file0

(* ------------------------------ fetch_page ----------------------------- *)
\* every attempt of the call failed
AllFailed == outcomes # <<>> /\ \A j \in 1..Len(outcomes) : outcomes[j].kind # "ok"

C15_WaitsBetweenAttempts ==
    /\ \A w \in 1..Len(waits) : waits[w] = RETRY_INTERVAL
    /\ Fetching => Len(waits) = Len(outcomes)
    /\ (~Fetching /\ outcomes # <<>>) => Len(waits) = Len(outcomes) - 1

\* a call that failed MAX_RETRY times has returned after MAX_RETRY - 1 waits
C15_Witness ==
    /\ ~Fetching
    /\ AllFailed
    /\ Len(outcomes) = MAX_RETRY
    /\ waits = <<RETRY_INTERVAL, RETRY_INTERVAL>>

C17_NoOrchestratorRetry ==
    /\ indexCalls <= 1
    /\ k <= Len(property_list)
    /\ Len(detailRets) <= k
    /\ Len(detailRets) >= k - 1
    /\ Fetching => (i = Len(outcomes) /\ InRange(i))
    /\ attempts <= MAX_RETRY * (indexCalls + k)
    /\ attempts <= MAX_RETRY * (1 + Len(property_list))

\* a run with two records that used every attempt of every call
C17_Witness ==
    /\ RunOver
    /\ Len(property_list) = 2
    /\ detailRets = <<None, None>>
    /\ attempts = MAX_RETRY * (1 + 2)

(* ------------------------ parse_property_details ----------------------- *)
\* the document of the call of line 160 whose result details holds
Scanned == detailRets[Len(detailRets)][1]

NoDefaults == [structure |-> SENTINEL, deposit |-> SENTINEL]
HasRaising(rows) == \E n \in 1..Len(rows) : rows[n].raises
\* the rows before the first row that raises
BeforeException(rows) ==
    IF HasRaising(rows)
    THEN SubSeq(rows, 1, (CHOOSE n \in 1..Len(rows) :
                             /\ rows[n].raises
                             /\ \A m \in 1..(n - 1) : ~rows[m].raises) - 1)
    ELSE rows
\* a row with a key cell and a value cell
Complete(row) == ~row.raises /\ row.th # None /\ row.td # None
IsStructureRow(row) == Complete(row) /\ Contains(KOUZOU, row.th[1])
HasDepositMarker(row) == Complete(row) /\ Contains(SHIKIKIN, row.th[1])
\* line 94 is the elif of line 92
IsDepositRow(row) == HasDepositMarker(row) /\ ~Contains(KOUZOU, row.th[1])
\* the trimmed value of the last row with P, the sentinel when there is none
LastValue(rows, P(_)) ==
    LET M == {n \in 1..Len(rows) : P(rows[n])}
    IN  IF M = {} THEN SENTINEL
        ELSE Strip(rows[CHOOSE n \in M : \A m \in M : m <= n].td[1])

C19_SentinelExactlyWhenNoRow ==
    (details # None /\ ~HasRaising(Scanned)) =>
        LET matching == {n \in 1..Len(Scanned) : IsStructureRow(Scanned[n])}
        IN  /\ details[1].structure = SENTINEL <=> matching = {}
            /\ matching # {} =>
                  details[1].structure = LastValue(Scanned, IsStructureRow)
            /\ \/ details[1].deposit = SENTINEL
               \/ \E n \in 1..Len(Scanned) :
                     /\ HasDepositMarker(Scanned[n])
                     /\ details[1].deposit = Strip(Scanned[n].td[1])

\* a row that bears on the result
Relevant(row) == IsStructureRow(row) \/ HasDepositMarker(row)

\* C19: for tables no row of which raises: structure is the sentinel when
\* no complete row has a key with the structure marker, else the trimmed
\* value of the last such row, which may be the sentinel text; deposit
\* likewise from the complete rows with the deposit marker and without the
\* structure marker; the table with its incomplete and unrecognised rows
\* deleted gives the same result.
C19_LastMatchingRow ==
    (details # None /\ ~HasRaising(Scanned)) =>
        /\ details[1].structure = LastValue(Scanned, IsStructureRow)
        /\ details[1].deposit = LastValue(Scanned, IsDepositRow)
        /\ \/ details[1].deposit = SENTINEL
           \/ \E n \in 1..Len(Scanned) :
                 /\ HasDepositMarker(Scanned[n])
                 /\ details[1].deposit = Strip(Scanned[n].td[1])
        /\ details[1] = parse_property_details(SelectSeq(Scanned, Relevant))
        /\ DOMAIN details[1] = {"structure", "deposit"}

\* the last structure row of the table has the sentinel text as its value:
\* structure is the sentinel although rows matched
C19_Witness ==
    /\ details # None
    /\ Scanned = <<RowStructure, RowDeposit, RowSentinelValue>>
    /\ details[1].structure = SENTINEL
    /\ details[1].deposit = <<"1">>

(* -------------------------------- merge -------------------------------- *)
\* the indices of the records whose detail fetch returned a document
Merged == {m \in 1..Len(detailRets) : detailRets[m] # None}
\* record m of the index document with the two fields of its own detail
\* document attached
MergedRecord(m) ==
    LET s == parsed[1].data[m]
        d == parse_property_details(detailRets[m][1])
    IN  [name |-> s.name, price |-> s.price, madori |-> s.madori,
         stations |-> s.stations, URL |-> s.URL,
         structure |-> d.structure, deposit |-> d.deposit]
\* the index of the a-th merged record
NthMerged(a) == CHOOSE m \in Merged : Cardinality({n \in Merged : n <= m}) = a

\* C20: the merged records are, in order and once each, the summary records
\* whose detail fetch returned a document, with name, price, layout,
\* stations and URL as extracted and structure and deposit from their own
\* detail document; every other record is as extracted; this is so at every
\* later point of the run, and what the sink receives are such records.
C20_MergeFrame ==
    (parsed # None /\ parsed[1].exc = "" /\ runpc # "index_returned") =>
        /\ Len(property_list) = Len(parsed[1].data)
        /\ Len(all_data) = Cardinality(Merged)
        /\ \A a \in 1..Len(all_data) : all_data[a] = MergedRecord(NthMerged(a))
        /\ \A m \in 1..Len(property_list) :
              property_list[m] = IF m \in Merged THEN MergedRecord(m)
                                 ELSE parsed[1].data[m]
        /\ handed # None =>
              \A j \in 1..Len(handed[1]) :
                  \E a \in 1..Len(all_data) : handed[1][j] = all_data[a]

\* two records merged with different detail documents and written to the
\* file
C20_Witness ==
    /\ RunOver /\ saved
    /\ Len(all_data) = 2
    /\ all_data[1].structure = <<"R", "C", "zou">>
    /\ all_data[1].structure # all_data[2].structure
    /\ all_data[1].price = parsed[1].data[1].price
    /\ handed # None /\ Len(handed[1]) = 2
====
